---- MODULE Spec2Model ----
(***************************************************************************)
(* Loan-eligibility chatbot: the PII masker, the field extractor, the      *)
(* eligibility engine and the per-turn session orchestration.              *)
(*                                                                         *)
(* Text is a sequence of one-character strings.  Money is an integer       *)
(* number of units of 1/1200 of a currency unit, so that an amount with    *)
(* two decimals, and such an amount divided by 12, are both exact.         *)
(* A DTI ratio is an integer number of hundredths of a percent.            *)
(***************************************************************************)
EXTENDS Integers, Sequences, FiniteSets, TLC

\* ------------------------------------------------------------------------
\* Characters and text
\* ------------------------------------------------------------------------

LowerLetters ==
  {"a","b","c","d","e","f","g","h","i","j","k","l","m",
   "n","o","p","q","r","s","t","u","v","w","x","y","z"}

UpperLetters ==
  {"A","B","C","D","E","F","G","H","I","J","K","L","M",
   "N","O","P","Q","R","S","T","U","V","W","X","Y","Z"}

Digits == {"0","1","2","3","4","5","6","7","8","9"}

\* \s of the regular expressions (the texts of the model use the blank only)
Whitespace == {" "}

\* \w of the regular expressions
WordChars == LowerLetters \cup UpperLetters \cup Digits \cup {"_"}

LowerPairs ==
  << <<"A","a">>, <<"B","b">>, <<"C","c">>, <<"D","d">>, <<"E","e">>,
     <<"F","f">>, <<"G","g">>, <<"H","h">>, <<"I","i">>, <<"J","j">>,
     <<"K","k">>, <<"L","l">>, <<"M","m">>, <<"N","n">>, <<"O","o">>,
     <<"P","p">>, <<"Q","q">>, <<"R","r">>, <<"S","s">>, <<"T","t">>,
     <<"U","u">>, <<"V","v">>, <<"W","w">>, <<"X","x">>, <<"Y","y">>,
     <<"Z","z">> >>

\* str.lower() on one character
LowerChar(c) ==
  IF c \in UpperLetters
    THEN LowerPairs[CHOOSE k \in 1..26 : LowerPairs[k][1] = c][2]
    ELSE c

\* str.upper() on one character
UpperChar(c) ==
  IF c \in LowerLetters
    THEN LowerPairs[CHOOSE k \in 1..26 : LowerPairs[k][2] = c][1]
    ELSE c

\* a function on 1..n as a tuple
Tuple(f) == << >> \o f

\* str.lower()
Lower(s) == Tuple([k \in 1..Len(s) |-> LowerChar(s[k])])

\* str.upper()
Upper(s) == Tuple([k \in 1..Len(s) |-> UpperChar(s[k])])

\* s[i-1 : j-1] of Python for 1-based positions i <= j (j exclusive)
Slice(s, i, j) == SubSeq(s, i, j - 1)

\* lit occurs in s at position i
OccursAt(s, i, lit) ==
  /\ i + Len(lit) - 1 <= Len(s)
  /\ \A k \in 1..Len(lit) : s[i + k - 1] = lit[k]

\* the Python test `lit in s`
Contains(s, lit) == \E i \in 1..(Len(s) + 1) : OccursAt(s, i, lit)

\* ------------------------------------------------------------------------
\* Regular expressions (the subset of Python's re the program uses)
\* ------------------------------------------------------------------------

\* the iterations an open repetition (*, +) may make
Unbounded == 99

Lit(cs) == [t |-> "lit", cs |-> cs]
OneOf(S) == [t |-> "set", s |-> S]
Cat(rs) == [t |-> "cat", rs |-> rs]
Alt(rs) == [t |-> "alt", rs |-> rs]
Rep(r, lo, hi) == [t |-> "rep", r |-> r, lo |-> lo, hi |-> hi]
Opt(r) == Rep(r, 0, 1)
WordBoundary == [t |-> "wb"]
\* the capture group 1
Group(r) == [t |-> "grp", r |-> r]
Empty == Cat(<< >>)

\* a pattern with capture group 1
Pattern(pre, grp, post) == Cat(<< pre, Group(grp), post >>)

\* a pattern of which only group 0 is used
Plain(r) == r

IsWordAt(s, i) == i >= 1 /\ i <= Len(s) /\ s[i] \in WordChars

\* c is in the class cls (ic is re.IGNORECASE)
InClass(c, cls, ic) ==
  \/ c \in cls
  \/ ic /\ (LowerChar(c) \in cls \/ UpperChar(c) \in cls)

RECURSIVE Flatten(_)
\* the concatenation of a sequence of sequences
Flatten(ss) == IF ss = << >> THEN << >> ELSE Head(ss) \o Flatten(Tail(ss))

\* the state of the matcher at position i, capture group 1 not set
At(i) == [pos |-> i, gstart |-> 0, gend |-> 0]

RECURSIVE Ends(_, _, _, _)
\* The states in which a match of r that starts in state st can end, in the
\* order in which the backtracking matcher tries them.  ic is re.IGNORECASE.
Ends(r, s, st, ic) ==
  CASE r.t = "lit" ->
         IF /\ st.pos + Len(r.cs) - 1 <= Len(s)
            /\ \A k \in 1..Len(r.cs) :
                 IF ic THEN LowerChar(s[st.pos + k - 1]) = LowerChar(r.cs[k])
                       ELSE s[st.pos + k - 1] = r.cs[k]
           THEN << [st EXCEPT !.pos = @ + Len(r.cs)] >>
           ELSE << >>
    [] r.t = "set" ->
         IF st.pos <= Len(s) /\ InClass(s[st.pos], r.s, ic)
           THEN << [st EXCEPT !.pos = @ + 1] >>
           ELSE << >>
    [] r.t = "wb" ->
         IF IsWordAt(s, st.pos - 1) # IsWordAt(s, st.pos) THEN << st >> ELSE << >>
    [] r.t = "grp" ->
         LET Mark(es) ==
               Tuple([k \in 1..Len(es) |->
                        [es[k] EXCEPT !.gstart = st.pos, !.gend = es[k].pos]])
         IN Mark(Ends(r.r, s, st, ic))
    [] r.t = "cat" ->
         IF r.rs = << >> THEN << st >>
         ELSE LET Rest(es) ==
                    Flatten(Tuple([k \in 1..Len(es) |->
                                     Ends(Cat(Tail(r.rs)), s, es[k], ic)]))
              IN Rest(Ends(Head(r.rs), s, st, ic))
    [] r.t = "alt" ->
         IF r.rs = << >> THEN << >>
         ELSE Ends(Head(r.rs), s, st, ic) \o Ends(Alt(Tail(r.rs)), s, st, ic)
    [] r.t = "rep" /\ r.r.t = "set" ->
         \* a repeated character class: the longest run first, then shorter ones
         LET Shorter(most) ==
               IF most < r.lo THEN << >>
               ELSE Tuple([k \in 1..(most - r.lo + 1) |->
                             [st EXCEPT !.pos = @ + most - k + 1]])
             Longest(runs) ==
               Shorter(CHOOSE n \in runs : \A m \in runs : m <= n)
         IN Longest({ n \in 0..r.hi :
                        /\ st.pos + n - 1 <= Len(s)
                        /\ \A k \in st.pos..(st.pos + n - 1) : InClass(s[k], r.r.s, ic) })
    [] r.t = "rep" /\ r.r.t # "set" ->
         \* greedy: one more iteration is tried before stopping
         LET More(es) ==
               Flatten(Tuple([k \in 1..Len(es) |->
                                Ends(Rep(r.r, (IF r.lo > 0 THEN r.lo - 1 ELSE 0), r.hi - 1),
                                     s, es[k], ic)]))
         IN (IF r.hi > 0 THEN More(Ends(r.r, s, st, ic)) ELSE << >>)
              \o (IF r.lo = 0 THEN << st >> ELSE << >>)

NoMatch == [found |-> FALSE, start |-> 0, end |-> 0, gstart |-> 0, gend |-> 0]

\* the match of p that starts at position i, if there is one: the first way
\* the matcher finds
MatchAt(p, s, i, ic) ==
  LET First(es) ==
        IF es = << >> THEN NoMatch
        ELSE [found |-> TRUE, start |-> i, end |-> es[1].pos,
              gstart |-> es[1].gstart, gend |-> es[1].gend]
  IN First(Ends(p, s, At(i), ic))

\* re.search(p, s) restricted to matches that start at position i or later:
\* the leftmost match wins
SearchFrom(p, s, i, ic) ==
  LET Leftmost(ms) ==
        IF \A k \in 1..Len(ms) : ~ms[k].found THEN NoMatch
        ELSE ms[CHOOSE k \in 1..Len(ms) :
                  ms[k].found /\ \A j \in 1..(k - 1) : ~ms[j].found]
  IN Leftmost(Tuple([k \in 1..(Len(s) + 2 - i) |-> MatchAt(p, s, i + k - 1, ic)]))

\* re.search(p, s)
Search(p, s, ic) == SearchFrom(p, s, 1, ic)

RECURSIVE FindIter(_, _, _, _)
\* list(re.finditer(p, s)): the non-overlapping matches, left to right
FindIter(p, s, i, ic) ==
  LET Rest(m) ==
        IF ~m.found THEN << >>
        ELSE << m >>
               \o FindIter(p, s, (IF m.end = m.start THEN m.end + 1 ELSE m.end), ic)
  IN Rest(SearchFrom(p, s, i, ic))

\* ------------------------------------------------------------------------
\* Values of the applicant record
\* ------------------------------------------------------------------------

required_fields ==
  << "gross_monthly_income", "total_monthly_debt", "loan_amount",
     "employment_status", "credit_score_range" >>

Fields == { required_fields[k] : k \in 1..Len(required_fields) }

\* a key that is not in the dict
Absent == [kind |-> "absent", num |-> 0, str |-> ""]
\* a key whose value is None
None == [kind |-> "none", num |-> 0, str |-> ""]
\* a number, in units of 1/1200
Num(n) == [kind |-> "num", num |-> n, str |-> ""]
Str(x) == [kind |-> "str", num |-> 0, str |-> x]

\* units of 1/1200 in one currency unit
UnitsPerCurrency == 12 * 100

\* the dict {}
EmptyRecord == [f \in Fields |-> Absent]

\* ------------------------------------------------------------------------
\* Field extractor (GeminiChatbot._extract_entities)
\* ------------------------------------------------------------------------

D == OneOf(Digits)
Blanks == Rep(OneOf(Whitespace), 0, Unbounded)
DollarOpt == Opt(Lit(<<"$">>))

\* (\d{1,3}(?:,\d{3})*(?:\.\d{2})?)
AmountRe ==
  Cat(<< Rep(D, 1, 3),
         Rep(Cat(<< Lit(<<",">>), Rep(D, 3, 3) >>), 0, Unbounded),
         Opt(Cat(<< Lit(<<".">>), Rep(D, 2, 2) >>)) >>)

income_patterns ==
  << Pattern(DollarOpt, AmountRe,
             Cat(<< Blanks, Alt(<< Lit(<<"p","e","r"," ","m","o","n","t","h">>), Lit(<<"m","o",
                   "n","t","h","l","y">>),
                                   Lit(<<"a"," ","m","o","n","t","h">>), Lit(<<"/","m","o","n",
                                         "t","h">>) >>) >>)),
     Pattern(Cat(<< Alt(<< Lit(<<"m","a","k","e">>), Lit(<<"e","a","r","n">>), Lit(<<"i","n","c",
           "o","m","e"," ","o","f">>) >>),
                    Blanks, DollarOpt >>),
             AmountRe, Empty),
     Pattern(Empty, Rep(D, 1, Unbounded),
             Cat(<< Lit(<<"k">>), Blanks,
                    Alt(<< Lit(<<"p","e","r"," ","m","o","n","t","h">>), Lit(<<"m","o","n","t",
                          "h","l","y">>), Lit(<<"a"," ","m","o","n","t","h">>) >>) >>)) >>

debt_patterns ==
  << Pattern(Cat(<< Alt(<< Lit(<<"d","e","b","t">>), Lit(<<"d","e","b","t","s">>), Lit(<<"o","w",
        "e">>),
                           Lit(<<"p","a","y","m","e","n","t">>), Lit(<<"p","a","y","m","e","n",
                                 "t","s">>) >>),
                    Blanks,
                    Opt(Alt(<< Lit(<<"o","f">>), Lit(<<"i","s">>), Lit(<<"a","r","e">>) >>)),
                    Blanks, DollarOpt >>),
             AmountRe, Empty),
     Pattern(DollarOpt, AmountRe,
             Cat(<< Blanks, Alt(<< Lit(<<"i","n"," ","d","e","b","t">>), Lit(<<"d","e","b","t",
                   " ","p","a","y","m","e","n","t">>),
                                   Lit(<<"m","o","n","t","h","l","y"," ","d","e","b",
                                         "t">>) >>) >>)) >>

loan_patterns ==
  << Pattern(Cat(<< Alt(<< Lit(<<"l","o","a","n">>), Lit(<<"b","o","r","r","o","w">>), Lit(<<"n",
        "e","e","d">>) >>),
                    Blanks,
                    Opt(Alt(<< Lit(<<"o","f">>), Lit(<<"f","o","r">>) >>)),
                    Blanks, DollarOpt >>),
             AmountRe, Empty),
     Pattern(DollarOpt, AmountRe, Cat(<< Blanks, Lit(<<"l","o","a","n">>) >>)) >>

employment_keywords ==
  << [value |-> "full_time",
      keywords |-> << <<"f","u","l","l","-","t","i","m","e">>, <<"f","u","l","l"," ","t","i","m",
            "e">>, <<"f","u","l","l","t","i","m","e">>, <<"e","m","p","l","o","y","e","d"," ","f",
            "u","l","l">> >>],
     [value |-> "part_time",
      keywords |-> << <<"p","a","r","t","-","t","i","m","e">>, <<"p","a","r","t"," ","t","i","m",
            "e">>, <<"p","a","r","t","t","i","m","e">> >>],
     [value |-> "self_employed",
      keywords |-> << <<"s","e","l","f","-","e","m","p","l","o","y","e","d">>, <<"s","e","l","f",
            " ","e","m","p","l","o","y","e","d">>, <<"f","r","e","e","l","a","n","c","e">>,
                      <<"o","w","n"," ","b","u","s","i","n","e","s","s">>, <<"c","o","n","t","r",
                            "a","c","t","o","r">> >>],
     [value |-> "unemployed",
      keywords |-> << <<"u","n","e","m","p","l","o","y","e","d">>, <<"n","o","t"," ","w","o","r",
            "k","i","n","g">>, <<"n","o"," ","j","o","b">> >>],
     [value |-> "retired",
      keywords |-> << <<"r","e","t","i","r","e","d">>, <<"r","e","t","i","r","e","m","e","n",
            "t">> >>] >>

credit_keywords ==
  << [value |-> "excellent",
      keywords |-> << <<"e","x","c","e","l","l","e","n","t">>, <<"7","5","0">>, <<"8","0",
            "0">>, <<"g","r","e","a","t"," ","c","r","e","d","i","t">>,
                      <<"p","e","r","f","e","c","t"," ","c","r","e","d","i","t">> >>],
     [value |-> "good",
      keywords |-> << <<"g","o","o","d">>, <<"7","0","0">>, <<"d","e","c","e","n","t"," ","c","r",
            "e","d","i","t">> >>],
     [value |-> "fair",
      keywords |-> << <<"f","a","i","r">>, <<"6","5","0">>, <<"a","v","e","r","a","g","e"," ","c",
            "r","e","d","i","t">>, <<"o","k","a","y"," ","c","r","e","d","i","t">> >>],
     [value |-> "poor",
      keywords |-> << <<"p","o","o","r">>, <<"6","0","0">>, <<"b","a","d"," ","c","r","e","d","i",
            "t">>, <<"l","o","w"," ","c","r","e","d","i","t">> >>] >>

intent_keywords ==
  << <<"l","o","a","n">>, <<"a","p","p","l","y">>, <<"q","u","a","l","i","f","y">>, <<"e","l","i",
        "g","i","b","l","e">>, <<"a","p","p","r","o","v","a","l">>, <<"b","o","r","r","o","w">>,
     <<"m","o","r","t","g","a","g","e">> >>

DigitSeq == << "0", "1", "2", "3", "4", "5", "6", "7", "8", "9" >>

DigitVal(c) == (CHOOSE k \in 1..10 : DigitSeq[k] = c) - 1

RECURSIVE IntOf(_)
\* int() of a sequence of digits
IntOf(ds) ==
  IF ds = << >> THEN 0
  ELSE 10 * IntOf(SubSeq(ds, 1, Len(ds) - 1)) + DigitVal(ds[Len(ds)])

NotComma(c) == c # ","

\* float(x) of digits with an optional two-digit fraction, in units of 1/1200
FloatOf(cs) ==
  IF Len(cs) >= 3 /\ cs[Len(cs) - 2] = "."
    THEN (IntOf(SubSeq(cs, 1, Len(cs) - 3)) * 100
            + IntOf(SubSeq(cs, Len(cs) - 1, Len(cs)))) * (UnitsPerCurrency \div 100)
    ELSE IntOf(cs) * UnitsPerCurrency

\* float(match.group(1).replace(',', ''))
GroupAmount(low, m) == FloatOf(SelectSeq(Slice(low, m.gstart, m.gend), NotComma))

RECURSIVE FirstPatternMatch(_, _, _)
\* the match of the first pattern of the list that matches the text
FirstPatternMatch(patterns, n, low) ==
  IF n > Len(patterns) THEN NoMatch
  ELSE LET Try(m) == IF m.found THEN m ELSE FirstPatternMatch(patterns, n + 1, low)
       IN Try(Search(patterns[n], low, FALSE))

NoHit == [hit |-> FALSE, amount |-> 0]

\* the income loop: the amount the utterance sets, if any
IncomeOf(user_message) ==
  LET Scaled(low, m, parsed) ==
        IF Contains(Lower(Slice(low, m.start, m.end)), <<"k">>)
          THEN parsed * 1000
          ELSE parsed
      Monthly(low, amount) ==
        IF Contains(low, <<"y","e","a","r">>) \/ Contains(low, <<"a","n","n","u","a","l">>)
          THEN amount \div 12
          ELSE amount
      Amount(low, m) ==
        IF ~m.found THEN NoHit
        ELSE [hit |-> TRUE,
              amount |-> Monthly(low, Scaled(low, m, GroupAmount(low, m)))]
  IN Amount(Lower(user_message),
            FirstPatternMatch(income_patterns, 1, Lower(user_message)))

\* the debt loop and the loan loop
AmountOf(patterns, user_message) ==
  LET Amount(low, m) ==
        IF ~m.found THEN NoHit ELSE [hit |-> TRUE, amount |-> GroupAmount(low, m)]
  IN Amount(Lower(user_message), FirstPatternMatch(patterns, 1, Lower(user_message)))

AnyKeyword(keywords, low) == \E k \in 1..Len(keywords) : Contains(low, keywords[k])

RECURSIVE KeywordHits(_, _, _)
\* the values of the categories, in table order, that have a keyword in the
\* text: the loop over a keyword table assigns each of them in turn
KeywordHits(table, n, low) ==
  IF n > Len(table) THEN << >>
  ELSE (IF AnyKeyword(table[n].keywords, low) THEN << table[n].value >> ELSE << >>)
         \o KeywordHits(table, n + 1, low)

\* what one utterance makes _extract_entities do
MatchesOf(user_message) ==
  [income |-> IncomeOf(user_message),
   debt |-> AmountOf(debt_patterns, user_message),
   loan |-> AmountOf(loan_patterns, user_message),
   employment |-> KeywordHits(employment_keywords, 1, Lower(user_message)),
   credit |-> KeywordHits(credit_keywords, 1, Lower(user_message)),
   intent |-> AnyKeyword(intent_keywords, Lower(user_message))]

\* what the user types
Utterances ==
  { <<"e","a","r","n"," ","2","0",",","0","0","0"," ","m","o","n","t","h","l","y",","," ","o","w",
        "e"," ","7",",","2","0","0",","," ","n","e","e","d"," ","9","0",",","0","0","0",","," ",
        "f","u","l","l"," ","t","i","m","e",","," ","g","o","o","d">>,
    <<"I"," ","m","a","k","e"," ","a","b","o","u","t"," ","$","6","0","0","0"," ","p","e","r"," ",
          "m","o","n","t","h">>,
    <<"a","c","c","t"," ","6","0","0","1","2","3","4","5","6">>,
    <<"i"," ","a","m"," ","r","e","t","i","r","e","d"," ","n","o","w">>,
    <<"h","i">>,
    <<"w","h","a","t"," ","a","b","o","u","t"," ","a"," ","l","o","a","n"," ","l","a","s","t"," ",
          "y","e","a","r">> }

\* the texts given to the extractor directly, besides Utterances
ExtractTexts ==
  { <<"f","u","l","l"," ","t","i","m","e",","," ","r","e","t","i","r","e","d",","," ","g","o","o",
        "d"," ","o","r"," ","p","o","o","r">>,
    <<"I"," ","m","a","k","e"," ","5","0","k"," ","a"," ","m","o","n","t","h">>,
    <<"I"," ","e","a","r","n"," ","5","0","k"," ","a"," ","m","o","n","t","h">>,
    <<"I"," ","m","a","k","e"," ","9","0">> }

\* MatchesOf of each utterance and each text, computed once
MatchesOfUtterances ==
  { [text |-> u, matches |-> MatchesOf(u)] : u \in Utterances \cup ExtractTexts }

\* the patterns and keywords user_message, one of Utterances, matches
Matches(user_message) ==
  (CHOOSE e \in MatchesOfUtterances : e.text = user_message).matches


\* a numeric loop that adds the matched amount to the amount already stored
SetAmount_add(extracted, field, hit) ==
  IF hit.hit THEN [extracted EXCEPT ![field] = Num(@.num + hit.amount)] ELSE extracted

\* a numeric loop that deletes the key when nothing matches
SetAmount_clear(extracted, field, hit) ==
  IF hit.hit THEN [extracted EXCEPT ![field] = Num(hit.amount)]
  ELSE [extracted EXCEPT ![field] = Absent]

\* extracted[field] = amount of a numeric loop: only a match assigns
SetAmount(extracted, field, hit) ==
  IF hit.hit THEN [extracted EXCEPT ![field] = Num(hit.amount)] ELSE extracted

RECURSIVE SetEach(_, _, _, _)
\* extracted[field] = value for each category that matched, in table order
SetEach(extracted, field, values, k) ==
  IF k > Len(values) THEN extracted
  ELSE SetEach([extracted EXCEPT ![field] = Str(values[k])], field, values, k + 1)

\* the labels appended to metrics['entities_extracted'] by one call
LabelsOf(m) ==
  (IF m.income.hit THEN << "income" >> ELSE << >>)
  \o (IF m.debt.hit THEN << "debt" >> ELSE << >>)
  \o (IF m.loan.hit THEN << "loan_amount" >> ELSE << >>)
  \o [k \in 1..Len(m.employment) |-> "employment"]
  \o [k \in 1..Len(m.credit) |-> "credit_score"]

\* an extraction that sets the intent flag to what this utterance says
extract_entities_intent_of_turn(s, user_message) ==
  LET Apply(m) ==
        [s EXCEPT
           !.extracted_data =
             SetEach(
               SetEach(
                 SetAmount(
                   SetAmount(
                     SetAmount(@, "gross_monthly_income", m.income),
                     "total_monthly_debt", m.debt),
                   "loan_amount", m.loan),
                 "employment_status", m.employment, 1),
               "credit_score_range", m.credit, 1),
           !.metrics.entities_extracted = @ \o LabelsOf(m),
           !.metrics.intent_recognized = m.intent]
  IN Apply(Matches(user_message))

\* GeminiChatbot._extract_entities(session, user_message, bot_response): the
\* session after the call (bot_response is not used by the code)
extract_entities(s, user_message) ==
  LET Apply(m) ==
        [s EXCEPT
           !.extracted_data =
             SetEach(
               SetEach(
                 SetAmount(
                   SetAmount(
                     SetAmount(@, "gross_monthly_income", m.income),
                     "total_monthly_debt", m.debt),
                   "loan_amount", m.loan),
                 "employment_status", m.employment, 1),
               "credit_score_range", m.credit, 1),
           !.metrics.entities_extracted = @ \o LabelsOf(m),
           !.metrics.intent_recognized = IF m.intent THEN TRUE ELSE @]
  IN Apply(Matches(user_message))

\* ------------------------------------------------------------------------
\* PII masker (utils/pii_masker.py)
\* ------------------------------------------------------------------------

Sep == OneOf({"-", " "})
SepDot == OneOf({"-", ".", " "})
LabelSep == Rep(OneOf({" ", "#", ":"}), 0, Unbounded)

\* PIIMasker.pii_patterns, in the order of the dict
pii_patterns ==
  << [name |-> <<"s","s","n">>,
      re |-> Alt(<< Cat(<< WordBoundary, Rep(D, 3, 3), Lit(<<"-">>), Rep(D, 2, 2),
                           Lit(<<"-">>), Rep(D, 4, 4), WordBoundary >>),
                    Cat(<< WordBoundary, Rep(D, 9, 9), WordBoundary >>) >>)],
     [name |-> <<"c","r","e","d","i","t","_","c","a","r","d">>,
      re |-> Cat(<< WordBoundary, Rep(D, 4, 4), Opt(Sep), Rep(D, 4, 4), Opt(Sep),
                    Rep(D, 4, 4), Opt(Sep), Rep(D, 4, 4), WordBoundary >>)],
     [name |-> <<"p","h","o","n","e">>,
      re |-> Cat(<< WordBoundary,
                    Opt(Cat(<< Opt(Lit(<<"+">>)), Lit(<<"1">>), Opt(SepDot) >>)),
                    Opt(Lit(<<"(">>)), Rep(D, 3, 3), Opt(Lit(<<")">>)), Opt(SepDot),
                    Rep(D, 3, 3), Opt(SepDot), Rep(D, 4, 4), WordBoundary >>)],
     [name |-> <<"e","m","a","i","l">>,
      re |-> Cat(<< WordBoundary,
                    Rep(OneOf(LowerLetters \cup UpperLetters \cup Digits
                                \cup {".", "_", "%", "+", "-"}), 1, Unbounded),
                    Lit(<<"@">>),
                    Rep(OneOf(LowerLetters \cup UpperLetters \cup Digits
                                \cup {".", "-"}), 1, Unbounded),
                    Lit(<<".">>),
                    Rep(OneOf(LowerLetters \cup UpperLetters \cup {"|"}), 2, Unbounded),
                    WordBoundary >>)],
     [name |-> <<"a","c","c","o","u","n","t","_","n","u","m","b","e","r">>,
      re |-> Cat(<< WordBoundary, Alt(<< Lit(<<"a","c","c","o","u","n","t">>), Lit(<<"a","c","c",
            "t">>) >>),
                    LabelSep, Rep(D, 6, 18), WordBoundary >>)],
     [name |-> <<"r","o","u","t","i","n","g","_","n","u","m","b","e","r">>,
      re |-> Cat(<< WordBoundary, Alt(<< Lit(<<"r","o","u","t","i","n","g">>), Lit(<<"a","b",
            "a">>) >>),
                    LabelSep, Rep(D, 9, 9), WordBoundary >>)],
     [name |-> <<"a","d","d","r","e","s","s">>,
      re |-> Cat(<< WordBoundary, Rep(D, 1, Unbounded),
                    Rep(OneOf(Whitespace), 1, Unbounded),
                    Rep(OneOf(LowerLetters \cup UpperLetters \cup Digits
                                \cup Whitespace \cup {","}), 1, Unbounded),
                    Alt(<< Lit(<<"s","t","r","e","e","t">>), Lit(<<"s","t">>), Lit(<<"a","v","e",
                          "n","u","e">>), Lit(<<"a","v","e">>),
                           Lit(<<"r","o","a","d">>), Lit(<<"r","d">>), Lit(<<"b","o","u","l","e",
                                 "v","a","r","d">>),
                           Lit(<<"b","l","v","d">>), Lit(<<"l","a","n","e">>), Lit(<<"l",
                                 "n">>), Lit(<<"d","r","i","v","e">>),
                           Lit(<<"d","r">>), Lit(<<"c","o","u","r","t">>), Lit(<<"c",
                                 "t">>), Lit(<<"w","a","y">>) >>),
                    WordBoundary >>)] >>

PiiTypes == { pii_patterns[k].name : k \in 1..Len(pii_patterns) }

RECURSIVE StrOfInt(_)
\* str(n) for n >= 0
StrOfInt(n) ==
  IF n < 10 THEN << DigitSeq[n + 1] >>
  ELSE StrOfInt(n \div 10) \o << DigitSeq[(n % 10) + 1] >>

\* f"<{pii_type.upper()}_{count}>"
Placeholder(name, count) == <<"<">> \o Upper(name) \o <<"_">> \o StrOfInt(count) \o <<">">>

\* self.pii_counters = {} ; a type that is not a key counts 0
NoCounters == [n \in PiiTypes |-> 0]

\* a dict assignment that keeps the value of a key that is already there
DictSet_keep_first(dict, key, value) ==
  IF \E k \in 1..Len(dict) : dict[k].key = key
    THEN dict
    ELSE Append(dict, [key |-> key, value |-> value])

\* masked_mapping[placeholder] = original_value on a dict kept as the sequence
\* of its items in insertion order
DictSet(dict, key, value) ==
  IF \E k \in 1..Len(dict) : dict[k].key = key
    THEN Tuple([k \in 1..Len(dict) |->
                  IF dict[k].key = key THEN [key |-> key, value |-> value] ELSE dict[k]])
    ELSE Append(dict, [key |-> key, value |-> value])

RECURSIVE ReplaceMatches_left_to_right(_, _, _, _)
\* the loop over reversed(matches) with the placeholders numbered from the left
ReplaceMatches_left_to_right(st, name, matches, k) ==
  IF k = 0 THEN st
  ELSE ReplaceMatches_left_to_right(
         [st EXCEPT
            !.pii_counters = [@ EXCEPT ![name] = @ + 1],
            !.assigned = Append(@, [key |-> Placeholder(name, k),
                                    value |-> Slice(st.scanned, matches[k].start,
                                                    matches[k].end)]),
            !.masked_text = Slice(@, 1, matches[k].start) \o Placeholder(name, k)
                              \o Slice(@, matches[k].end, Len(@) + 1),
            !.mask_count = @ + 1],
         name, matches, k - 1)

RECURSIVE ReplaceMatches(_, _, _, _)
\* the loop over reversed(matches) of one type: k runs from the last match down;
\* assigned lists the assignments to masked_mapping in the order they are made
ReplaceMatches(st, name, matches, k) ==
  IF k = 0 THEN st
  ELSE LET count == st.pii_counters[name] + 1
           placeholder == Placeholder(name, count)
           original_value == Slice(st.scanned, matches[k].start, matches[k].end)
       IN ReplaceMatches(
            [st EXCEPT
               !.pii_counters = [@ EXCEPT ![name] = count],
               !.assigned = Append(@, [key |-> placeholder, value |-> original_value]),
               !.masked_text = Slice(@, 1, matches[k].start) \o placeholder
                                 \o Slice(@, matches[k].end, Len(@) + 1),
               !.mask_count = @ + 1],
            name, matches, k - 1)

RECURSIVE MaskTypes(_, _)
\* the loop over pii_patterns, from the n-th type on
MaskTypes(st, n) ==
  IF n > Len(pii_patterns) THEN st
  ELSE LET Replaced(name, matches) ==
             IF matches = << >> THEN st
             ELSE ReplaceMatches(
                    [st EXCEPT !.pii_detected = Append(@, name),
                               !.scanned = st.masked_text],
                    name, matches, Len(matches))
       IN MaskTypes(
            Replaced(pii_patterns[n].name,
                     FindIter(Plain(pii_patterns[n].re), st.masked_text, 1, TRUE)),
            n + 1)

\* what mask_text does to one text, whatever masked_mapping holds
MaskingOf(text) ==
  MaskTypes([masked_text |-> text, scanned |-> text, pii_detected |-> << >>,
             mask_count |-> 0, pii_counters |-> NoCounters, assigned |-> << >>], 1)

\* the texts given to the masker directly
MaskTexts ==
  { <<"s","s","n"," ","1","2","3","-","4","5","-","6","7","8","9"," ","o","r"," ","9","8","7","-",
        "6","5","-","4","3","2","1">>,
    <<"i","d","s"," ","1","1","1","2","2","3","3","3","3"," ","4","4","4","5","5","6","6","6","6",
          " ","7","7","7","8","8","9","9","9","9">>,
    <<"c","a","l","l"," ","5","5","5","-","1","2","3","-","4","5","6","7"," ","n","o","w">>,
    <<"5"," ","o","a","k"," ","s","t",","," ","b","o","b","@","x",".","c","o","m">>,
    <<"a","c","c","t"," ","6","0","0","1","2","3","4","5","6">>,
    <<"h","i">> }

\* MaskingOf of each utterance and each text, computed once
MaskingOfUtterances ==
  { [text |-> u, masking |-> MaskingOf(u)] : u \in Utterances \cup MaskTexts }

\* the placeholders, counters and masked text of one call on one of these texts
Masking(text) == (CHOOSE e \in MaskingOfUtterances : e.text = text).masking

RECURSIVE Assign(_, _, _)
\* self.masked_mapping[placeholder] = original_value, for each assignment in order
Assign(masked_mapping, assigned, k) ==
  IF k > Len(assigned) THEN masked_mapping
  ELSE Assign(DictSet(masked_mapping, assigned[k].key, assigned[k].value),
              assigned, k + 1)

\* PIIMasker.mask_text: the masked text, the metadata and the masker's state
\* after the call
mask_text(masked_mapping, text) ==
  LET Returned(st) ==
        [masked_text |-> st.masked_text,
         metadata |-> [original_length |-> Len(text),
                       pii_detected |-> st.pii_detected,
                       mask_count |-> st.mask_count,
                       masked_length |-> Len(st.masked_text)],
         pii_counters |-> st.pii_counters,
         masked_mapping |-> Assign(masked_mapping, st.assigned, 1)]
  IN Returned(Masking(text))

RECURSIVE Replace(_, _, _, _)
\* s.replace(old, new) from position i on: every occurrence, left to right
Replace(s, old, new, i) ==
  IF i > Len(s) THEN << >>
  ELSE IF OccursAt(s, i, old) THEN new \o Replace(s, old, new, i + Len(old))
  ELSE << s[i] >> \o Replace(s, old, new, i + 1)

RECURSIVE UnmaskItems(_, _, _)
\* the loop over masked_mapping.items(), from the k-th item on
UnmaskItems(masked_mapping, k, unmasked_text) ==
  IF k > Len(masked_mapping) THEN unmasked_text
  ELSE UnmaskItems(masked_mapping, k + 1,
                   Replace(unmasked_text, masked_mapping[k].key,
                           masked_mapping[k].value, 1))

\* PIIMasker.unmask_text
unmask_text(masked_mapping, masked_text) == UnmaskItems(masked_mapping, 1, masked_text)

\* PIIMasker.clear_mapping: the masker's state after the call
clear_mapping == [pii_counters |-> NoCounters, masked_mapping |-> << >>]

\* mask_sensitive_data: mask_text on a masker made for the call
mask_sensitive_data(text) == mask_text(<< >>, text)

\* ------------------------------------------------------------------------
\* Eligibility engine (utils/loan_calculator.py)
\* ------------------------------------------------------------------------

\* 36.0 percent, in hundredths of a percent
DTI_APPROVED_MAX == 3600
\* 43.0 percent, in hundredths of a percent
DTI_CONDITIONAL_MAX == 4300
\* in currency units
MIN_INCOME == 15000

RECURSIVE GCD(_, _)
GCD(a, b) == IF b = 0 THEN a ELSE GCD(b, a % b)

\* one step of decimal long division by n
DivStep(qr, n) == [q |-> qr.q * 10 + (qr.r * 10) \div n, r |-> (qr.r * 10) % n]

\* the quotient d * 10000 / n cut after the second decimal instead of rounded
RoundedRatio_truncated(d, n) ==
  LET g == GCD(d, n)
      dd == d \div g
      nn == n \div g
  IN DivStep(DivStep(DivStep(DivStep(
       [q |-> dd \div nn, r |-> dd % nn], nn), nn), nn), nn).q

\* round(d / n * 100, 2) in hundredths, for d >= 0 and n > 0: the quotient
\* d * 10000 / n rounded to the nearest integer, a tie to the even one (in
\* binary floating point an exact tie can fall either way; the amounts of
\* EvalInputs and of Utterances produce none)
RoundedRatio(d, n) ==
  LET g == GCD(d, n)
      dd == d \div g
      nn == n \div g
      qr == DivStep(DivStep(DivStep(DivStep(
              [q |-> dd \div nn, r |-> dd % nn], nn), nn), nn), nn)
  IN IF 2 * qr.r > nn THEN qr.q + 1
     ELSE IF 2 * qr.r < nn THEN qr.q
     ELSE qr.q + (qr.q % 2)

\* a float or None
NoneDti == [none |-> TRUE, value |-> 0]
Dti(v) == [none |-> FALSE, value |-> v]

\* LoanApprovalCalculator.calculate_dti: raised is the ValueError
calculate_dti(gross_monthly_income, total_monthly_debt) ==
  IF gross_monthly_income <= 0
    THEN [raised |-> TRUE, value |-> 0]
    ELSE [raised |-> FALSE,
          value |-> RoundedRatio(total_monthly_debt, gross_monthly_income)]

\* missing_fields_of without the test for None
missing_fields_of_absent_only(applicant_data) ==
  SelectSeq(required_fields, LAMBDA f : applicant_data[f].kind = "absent")

\* LoanApprovalCalculator.check_data_completeness: the missing fields, in the
\* order of required_fields
missing_fields_of(applicant_data) ==
  SelectSeq(required_fields,
            LAMBDA f : applicant_data[f].kind \in {"absent", "none"})

check_data_completeness(applicant_data) ==
  [is_complete |-> Len(missing_fields_of(applicant_data)) = 0,
   missing_fields |-> missing_fields_of(applicant_data)]

\* one reason fragment: its text, and the field names it lists
Reason(text) == [text |-> text, names |-> << >>]

\* a decision before the result dict is built (status "None" is Python's None)
NoDecision == [status |-> "None", decision |-> "", reasons |-> << >>,
               recommendations |-> << >>]

\* Disqualifiers where unemployment adds its reason and leaves the status
Disqualifiers_reason_only(st, gross_income, employment_status) ==
  LET st1 == IF gross_income < MIN_INCOME * UnitsPerCurrency
               THEN [st EXCEPT
                       !.status = "rejected",
                       !.reasons = Append(@, Reason(
                         "Monthly income is below minimum requirement"))]
               ELSE st
  IN IF employment_status = Str("unemployed")
       THEN [st1 EXCEPT
               !.reasons = Append(@, Reason(
                 "Applicant must have employment or income source"))]
       ELSE st1

\* "Check minimum requirements"
Disqualifiers(st, gross_income, employment_status) ==
  LET st1 == IF gross_income < MIN_INCOME * UnitsPerCurrency
               THEN [st EXCEPT
                       !.status = "rejected",
                       !.reasons = Append(@, Reason(
                         "Monthly income is below minimum requirement"))]
               ELSE st
  IN IF employment_status = Str("unemployed")
       THEN [st1 EXCEPT
               !.status = "rejected",
               !.reasons = Append(@, Reason(
                 "Applicant must have employment or income source"))]
       ELSE st1

\* DtiBand with the bounds excluded
DtiBand_exclusive(dti_ratio) ==
  IF dti_ratio < DTI_APPROVED_MAX THEN "approved"
  ELSE IF dti_ratio < DTI_CONDITIONAL_MAX THEN "conditional"
  ELSE "rejected"

\* the conditions of the DTI branches
DtiBand(dti_ratio) ==
  IF dti_ratio <= DTI_APPROVED_MAX THEN "approved"
  ELSE IF dti_ratio <= DTI_CONDITIONAL_MAX THEN "conditional"
  ELSE "rejected"

\* "Evaluate based on DTI ratio"
DtiStatus(st, dti_ratio) ==
  IF st.status # "None" THEN st
  ELSE IF DtiBand(dti_ratio) = "approved"
    THEN [status |-> "approved",
          decision |-> "Application Approved",
          reasons |-> Append(st.reasons, Reason(
            "Debt-to-Income ratio ({dti_ratio}%) is excellent")),
          recommendations |-> st.recommendations \o
            << "Proceed with document submission",
               "Upload proof of income (recent pay stubs)",
               "Upload proof of identity (driver's license)",
               "Submit bank statements (last 2 months)" >>]
  ELSE IF DtiBand(dti_ratio) = "conditional"
    THEN [status |-> "conditional",
          decision |-> "Application Conditionally Approved",
          reasons |-> Append(st.reasons, Reason(
            "Debt-to-Income ratio ({dti_ratio}%) requires additional review")),
          recommendations |-> st.recommendations \o
            << "Application requires manual underwriting review",
               "Consider reducing monthly debt obligations",
               "Provide additional documentation of income stability",
               "May require higher down payment",
               "Co-signer might improve approval chances" >>]
  ELSE [status |-> "rejected",
        decision |-> "Application Rejected",
        reasons |-> Append(st.reasons, Reason(
          "Debt-to-Income ratio ({dti_ratio}%) exceeds maximum threshold (43%)")),
        recommendations |-> st.recommendations \o
          << "Reduce monthly debt payments before reapplying",
             "Increase gross monthly income",
             "Consider a smaller loan amount",
             "Target DTI ratio below 43% (currently {dti_ratio}%)",
             "Seek credit counseling for debt management" >>]

\* CreditStep without the test that the status is approved
CreditStep_always(st, credit_score) ==
  IF credit_score = Str("poor") \/ credit_score = Str("very_poor")
    THEN [status |-> "conditional",
          decision |-> "Application Conditionally Approved",
          reasons |-> Append(st.reasons,
                             Reason("Credit score is below preferred range")),
          recommendations |-> Append(st.recommendations,
            "Work on improving credit score for better terms")]
    ELSE st

\* "Add credit score considerations"
CreditStep(st, credit_score) ==
  IF credit_score = Str("poor") \/ credit_score = Str("very_poor")
    THEN [status |-> IF st.status = "approved" THEN "conditional" ELSE st.status,
          decision |-> IF st.status = "approved"
                         THEN "Application Conditionally Approved"
                         ELSE st.decision,
          reasons |-> Append(st.reasons,
                             Reason("Credit score is below preferred range")),
          recommendations |-> Append(st.recommendations,
            "Work on improving credit score for better terms")]
    ELSE st

\* the decision of a complete record with income > 0 before the credit step
BeforeCredit(applicant_data) ==
  DtiStatus(
    Disqualifiers(NoDecision, applicant_data["gross_monthly_income"].num,
                  applicant_data["employment_status"]),
    calculate_dti(applicant_data["gross_monthly_income"].num,
                  applicant_data["total_monthly_debt"].num).value)

\* LoanApprovalCalculator.evaluate_application
evaluate_application(applicant_data) ==
  LET complete == check_data_completeness(applicant_data)
      dti == calculate_dti(applicant_data["gross_monthly_income"].num,
                           applicant_data["total_monthly_debt"].num)
  IN IF ~complete.is_complete
       THEN [status |-> "insufficient_data",
             decision |-> "Cannot process application",
             reason |-> << [text |-> "Missing required information: ",
                            names |-> complete.missing_fields] >>,
             has_missing_fields |-> TRUE,
             missing_fields |-> complete.missing_fields,
             dti_ratio |-> NoneDti,
             recommendations |->
               << "Please provide all required information to proceed" >>,
             has_applicant_summary |-> FALSE]
     ELSE IF dti.raised
       THEN [status |-> "rejected",
             decision |-> "Application Rejected",
             reason |-> << Reason("Gross monthly income must be greater than zero") >>,
             has_missing_fields |-> FALSE,
             missing_fields |-> << >>,
             dti_ratio |-> NoneDti,
             recommendations |-> << "Income must be greater than zero" >>,
             has_applicant_summary |-> FALSE]
     ELSE LET Built(st) ==
                [status |-> st.status,
                 decision |-> st.decision,
                 reason |-> IF st.reasons # << >> THEN st.reasons
                            ELSE << Reason("Based on financial profile assessment") >>,
                 has_missing_fields |-> FALSE,
                 missing_fields |-> << >>,
                 dti_ratio |-> Dti(dti.value),
                 recommendations |-> st.recommendations,
                 has_applicant_summary |-> TRUE]
          IN Built(CreditStep(BeforeCredit(applicant_data),
                              applicant_data["credit_score_range"]))


\* ------------------------------------------------------------------------
\* State
\* ------------------------------------------------------------------------

VARIABLES
  session,         \* the session dict of create_new_chat
  pii_masker,      \* GeminiChatbot.pii_masker: pii_counters and masked_mapping
  frame,           \* the send_message call: its position and locals, and what
                   \* the last call gave its caller
  applicant_data,  \* the argument of a direct call of evaluate_application
  result,          \* what that call returned
  harness          \* the environment: collaborator failures and direct calls so far

vars == << session, pii_masker, frame, applicant_data, result, harness >>

\* a str or None
NoneText == [none |-> TRUE, text |-> << >>]
Text(t) == [none |-> FALSE, text |-> t]

\* no session: the specifications that call one component directly
IdleSession ==
  [chat_instance |-> << >>, history |-> << >>, extracted_data |-> EmptyRecord,
   turn_count |-> 0,
   metrics |-> [intent_recognized |-> FALSE, entities_extracted |-> << >>,
                fallback_count |-> 0, errors |-> << >>]]

\* PIIMasker.__init__
NewMasker == [pii_counters |-> NoCounters, masked_mapping |-> << >>]

\* no call of send_message has returned or raised yet
NotReturned == [kind |-> "none", text |-> << >>, decision |-> << >>]

\* no call of mask_text has returned yet
NoMetadata ==
  [original_length |-> 0, pii_detected |-> << >>, mask_count |-> 0, masked_length |-> 0]

IdleFrame ==
  [pc |-> "idle", user_message |-> << >>, masked_message |-> << >>,
   pii_metadata |-> NoMetadata, attempt |-> 0,
   response_text |-> NoneText, extracted_from |-> << >>, evaluations |-> 0,
   decided_on |-> EmptyRecord, returned |-> NotReturned]

NewHarness == [faults |-> 0, calls |-> 0]

\* no call of evaluate_application has returned yet
NoResult ==
  [status |-> "", decision |-> "", reason |-> << >>, has_missing_fields |-> FALSE,
   missing_fields |-> << >>, dti_ratio |-> NoneDti, recommendations |-> << >>,
   has_applicant_summary |-> FALSE]

\* ------------------------------------------------------------------------
\* The engine called directly on a record
\* ------------------------------------------------------------------------

\* x currency units and c hundredths
Money(x, c) == (x * 100 + c) * (UnitsPerCurrency \div 100)

IncomeInputs ==
  { Absent, None, Num(Money(0 - 100, 0)), Num(0), Num(Money(4000, 0)),
    Num(Money(5000, 0)), Num(Money(6000, 0)), Num(Money(10000, 0)),
    Num(Money(14999, 99)), Num(Money(15000, 0)), Num(Money(20000, 0)),
    Num(Money(25000, 0)) }

DebtInputs ==
  { Absent, Num(0), Num(Money(1000, 0)), Num(Money(1800, 0)), Num(Money(2000, 0)),
    Num(Money(2200, 0)), Num(Money(5400, 0)), Num(Money(7200, 0)),
    Num(Money(7200, 90)), Num(Money(7201, 10)), Num(Money(7202, 0)),
    Num(Money(8600, 0)), Num(Money(8602, 0)), Num(Money(10750, 0)) }

LoanInputs == { None, Num(Money(180000, 0)), Num(Money(200000, 0)) }

EmploymentInputs == { Absent, Str("full_time"), Str("part_time"), Str("unemployed") }

CreditInputs == { Absent, Str("good"), Str("fair"), Str("poor"), Str("very_poor") }

EvalInputs ==
  { [f \in Fields |->
       CASE f = "gross_monthly_income" -> i
         [] f = "total_monthly_debt" -> d
         [] f = "loan_amount" -> l
         [] f = "employment_status" -> e
         [] f = "credit_score_range" -> c] :
    i \in IncomeInputs, d \in DebtInputs, l \in LoanInputs,
    e \in EmploymentInputs, c \in CreditInputs }

InitEval ==
  /\ session = IdleSession
  /\ pii_masker = NewMasker
  /\ frame = IdleFrame
  /\ applicant_data \in EvalInputs
  /\ result = NoResult
  /\ harness = NewHarness

\* result = calculator.evaluate_application(applicant_data)
Evaluate ==
  /\ result = NoResult
  /\ result' = evaluate_application(applicant_data)
  /\ UNCHANGED << session, pii_masker, frame, applicant_data, harness >>

NextEval == Evaluate

SpecEval == InitEval /\ [][NextEval]_vars

\* ------------------------------------------------------------------------
\* The conversation (services/gemini_service.py)
\* ------------------------------------------------------------------------

\* the turns of one session
MaxTurns == 2
\* the failures of the collaborator in one run
MaxFaults == 3

\* self.max_retries
max_retries == 3

\* what the collaborator answers
Replies == { <<"o","k">> }

\* str(e) of the exceptions of the collaborator
ErrorMessages == { <<"b","o","o","m">>, <<"q","u","o","t","a"," ","e","x","c","e","e","d","e",
      "d">> }

SYSTEM_PROMPT == << "You are a helpful and empathetic loan approval assistant ..." >>

\* the greeting of create_new_chat when the collaborator fails
Greeting ==
  << "Hello! I'm your loan approval assistant. I'm here to help you check your loan eligibility. How can I assist you today?" >>

\* create_new_chat: the session dict, given the first message of the model
NewSession(initial_message) ==
  [chat_instance |-> << SYSTEM_PROMPT >>,
   history |-> << [role |-> "model", parts |-> Text(initial_message)] >>,
   extracted_data |-> EmptyRecord,
   turn_count |-> 0,
   metrics |-> [intent_recognized |-> FALSE, entities_extracted |-> << >>,
                fallback_count |-> 0, errors |-> << >>]]

\* the response of the last failed attempt
DegradedResponse(error_msg) ==
  LET up == Upper(error_msg)
  IN IF Contains(up, <<"A","P","I","_","K","E","Y">>) \/ Contains(up, <<"I","N","V","A","L","I",
        "D">>)
       THEN << "API Key Error: Please check that your GEMINI_API_KEY is valid. Get a new key at https://makersuite.google.com/app/apikey" >>
     ELSE IF Contains(up, <<"Q","U","O","T","A">>) \/ Contains(up, <<"L","I","M","I","T">>)
       THEN << "API Quota Exceeded: You've reached your API usage limit. Please try again later or check your quota at Google AI Studio." >>
     ELSE IF Contains(up, <<"N","E","T","W","O","R","K">>) \/ Contains(up, <<"C","O","N","N","E",
           "C","T","I","O","N">>)
       THEN << "Connection Error: Unable to reach Gemini API. Please check your internet connection." >>
     ELSE << "Error: " >> \o error_msg
            \o << "\n\nPlease check:\n1. Your API key is valid\n2. You have internet connection\n3. Gemini API is accessible in your region" >>

\* a pii_detected entry that does not carry the detected types
PiiError_no_details(detected) ==
  [type |-> "pii_detected", details |-> << >>, attempt |-> 0, error |-> << >>]

\* an entry of metrics['errors'] (the timestamp is left out)
PiiError(detected) ==
  [type |-> "pii_detected", details |-> detected, attempt |-> 0, error |-> << >>]
ApiError(attempt, error_msg) ==
  [type |-> "api_error", details |-> << >>, attempt |-> attempt, error |-> error_msg]

\* `all(field in extracted for field in required_fields)`
AllPresent(extracted) == \A f \in Fields : extracted[f].kind # "absent"

\* the text _check_for_decision builds from the result
DecisionText(res, extracted) ==
  [status_line |-> res.decision,
   dti_line |-> res.dti_ratio,
   monthly_income |-> extracted["gross_monthly_income"].num,
   monthly_debt |-> extracted["total_monthly_debt"].num,
   loan_amount |-> extracted["loan_amount"].num,
   employment |-> extracted["employment_status"].str,
   credit_range |-> extracted["credit_score_range"].str,
   reason |-> res.reason,
   next_steps |-> res.recommendations]

\* GeminiChatbot._check_for_decision: None, the decision text, or the KeyError
\* of result['applicant_summary'] on a result that has no such key
check_for_decision(extracted) ==
  IF ~AllPresent(extracted)
    THEN [kind |-> "none", evaluations |-> 0, decision |-> << >>]
  ELSE LET Formatted(res) ==
             IF ~res.has_applicant_summary
               THEN [kind |-> "raised", evaluations |-> 1, decision |-> << >>]
               ELSE [kind |-> "text", evaluations |-> 1,
                     decision |-> << DecisionText(res, extracted) >>]
       IN Formatted(evaluate_application(extracted))

\* a snapshot whose entity_extraction_count counts each label once
get_conversation_metrics_distinct_count(s) ==
  [turn_count |-> s.turn_count,
   intent_recognized |-> s.metrics.intent_recognized,
   entities_extracted |->
     { s.metrics.entities_extracted[k] : k \in 1..Len(s.metrics.entities_extracted) },
   entity_extraction_count |->
     Cardinality({ s.metrics.entities_extracted[k] :
                     k \in 1..Len(s.metrics.entities_extracted) }),
   fallback_count |-> s.metrics.fallback_count,
   error_count |-> Len(s.metrics.errors),
   data_completeness |->
     Cardinality({ f \in Fields : s.extracted_data[f].kind # "absent" }) * 20,
   errors |-> s.metrics.errors]

\* a snapshot whose error_count leaves the pii_detected records out
get_conversation_metrics_api_only(s) ==
  [turn_count |-> s.turn_count,
   intent_recognized |-> s.metrics.intent_recognized,
   entities_extracted |->
     { s.metrics.entities_extracted[k] : k \in 1..Len(s.metrics.entities_extracted) },
   entity_extraction_count |-> Len(s.metrics.entities_extracted),
   fallback_count |-> s.metrics.fallback_count,
   error_count |->
     Cardinality({ k \in 1..Len(s.metrics.errors) : s.metrics.errors[k].type = "api_error" }),
   data_completeness |->
     Cardinality({ f \in Fields : s.extracted_data[f].kind # "absent" }) * 20,
   errors |-> s.metrics.errors]

\* GeminiChatbot.get_conversation_metrics (the duration is left out; the list
\* made of a set has no order of its own and is kept as the set;
\* len(extracted_data) / 5 * 100 is exact for 0..5 keys)
get_conversation_metrics(s) ==
  [turn_count |-> s.turn_count,
   intent_recognized |-> s.metrics.intent_recognized,
   entities_extracted |->
     { s.metrics.entities_extracted[k] : k \in 1..Len(s.metrics.entities_extracted) },
   entity_extraction_count |-> Len(s.metrics.entities_extracted),
   fallback_count |-> s.metrics.fallback_count,
   error_count |-> Len(s.metrics.errors),
   data_completeness |->
     Cardinality({ f \in Fields : s.extracted_data[f].kind # "absent" }) * 20,
   errors |-> s.metrics.errors]

\* the raw utterance given to chat_instance.send_message
ForwardedText_raw(user_message, masked_message) == user_message

\* the text given to chat_instance.send_message
ForwardedText(user_message, masked_message) == masked_message

\* the text given to _extract_entities
ExtractedText(user_message, masked_message) == user_message

\* the raw utterance as the text of the user entry of the history
HistoryText_raw(user_message, masked_message) == user_message

\* the text of the user entry of the history
HistoryText(user_message, masked_message) == masked_message

\* the state after GeminiChatbot.__init__ and the first create_new_chat
Init ==
  /\ \E initial_message \in Replies \cup {Greeting} :
       session = NewSession(initial_message)
  /\ pii_masker = NewMasker
  /\ frame = IdleFrame
  /\ applicant_data = EmptyRecord
  /\ result = NoResult
  /\ harness = NewHarness

\* a reset that keeps the record of the session it replaces
CreateNewChat_keeps_record(initial_message) ==
  /\ frame.pc = "idle"
  /\ session.turn_count > 0
  /\ session' = [NewSession(initial_message) EXCEPT
                   !.extracted_data = session.extracted_data]
  /\ frame' = IdleFrame
  /\ UNCHANGED << pii_masker, applicant_data, result, harness >>

\* ChatManager.reset_conversation: create_new_chat replaces the session
CreateNewChat(initial_message) ==
  /\ frame.pc = "idle"
  /\ session.turn_count > 0
  /\ session' = NewSession(initial_message)
  /\ frame' = IdleFrame
  /\ UNCHANGED << pii_masker, applicant_data, result, harness >>

\* send_message up to the retry loop: mask, log detected PII, record the turn
SendMessageBegin(user_message) ==
  /\ frame.pc = "idle"
  /\ session.turn_count < MaxTurns
  /\ LET Masked(m) ==
           /\ pii_masker' = [pii_counters |-> m.pii_counters,
                             masked_mapping |-> m.masked_mapping]
           /\ session' =
                [session EXCEPT
                   !.metrics.errors =
                     IF m.metadata.pii_detected # << >>
                       THEN Append(@, PiiError(m.metadata.pii_detected))
                       ELSE @,
                   !.history =
                     Append(@, [role |-> "user",
                                parts |-> Text(HistoryText(user_message, m.masked_text))]),
                   !.turn_count = @ + 1]
           /\ frame' = [frame EXCEPT
                          !.pc = "calling",
                          !.user_message = user_message,
                          !.masked_message = m.masked_text,
                          !.pii_metadata = m.metadata,
                          !.attempt = 0,
                          !.response_text = NoneText,
                          !.evaluations = 0,
                          !.returned = NotReturned]
     IN Masked(mask_text(pii_masker.masked_mapping, user_message))
  /\ UNCHANGED << applicant_data, result, harness >>

\* one attempt of the retry loop that the collaborator answers
AttemptSucceeds(reply) ==
  /\ frame.pc = "calling"
  /\ session' = [session EXCEPT
                   !.chat_instance =
                     Append(@, ForwardedText(frame.user_message, frame.masked_message))]
  /\ frame' = [frame EXCEPT !.response_text = Text(reply), !.pc = "responded"]
  /\ UNCHANGED << pii_masker, applicant_data, result, harness >>

\* a failed attempt that also counts a turn
AttemptFails_counts_turn(error_msg) ==
  /\ frame.pc = "calling"
  /\ harness.faults < MaxFaults
  /\ harness' = [harness EXCEPT !.faults = @ + 1]
  /\ session' = [session EXCEPT
                   !.chat_instance =
                     Append(@, ForwardedText(frame.user_message, frame.masked_message)),
                   !.metrics.errors = Append(@, ApiError(frame.attempt + 1, error_msg)),
                   !.turn_count = @ + 1]
  /\ frame' = IF frame.attempt < max_retries - 1
                THEN [frame EXCEPT !.attempt = @ + 1]
                ELSE [frame EXCEPT !.response_text = Text(DegradedResponse(error_msg)),
                                   !.pc = "responded"]
  /\ UNCHANGED << pii_masker, applicant_data, result >>

\* a failed attempt that also counts a fallback
AttemptFails_counts_fallback(error_msg) ==
  /\ frame.pc = "calling"
  /\ harness.faults < MaxFaults
  /\ harness' = [harness EXCEPT !.faults = @ + 1]
  /\ session' = [session EXCEPT
                   !.chat_instance =
                     Append(@, ForwardedText(frame.user_message, frame.masked_message)),
                   !.metrics.errors = Append(@, ApiError(frame.attempt + 1, error_msg)),
                   !.metrics.fallback_count = @ + 1]
  /\ frame' = IF frame.attempt < max_retries - 1
                THEN [frame EXCEPT !.attempt = @ + 1]
                ELSE [frame EXCEPT !.response_text = Text(DegradedResponse(error_msg)),
                                   !.pc = "responded"]
  /\ UNCHANGED << pii_masker, applicant_data, result >>

\* one attempt of the retry loop in which the collaborator raises
AttemptFails(error_msg) ==
  /\ frame.pc = "calling"
  /\ harness.faults < MaxFaults
  /\ harness' = [harness EXCEPT !.faults = @ + 1]
  /\ session' = [session EXCEPT
                   !.chat_instance =
                     Append(@, ForwardedText(frame.user_message, frame.masked_message)),
                   !.metrics.errors = Append(@, ApiError(frame.attempt + 1, error_msg))]
  /\ frame' = IF frame.attempt < max_retries - 1
                THEN [frame EXCEPT !.attempt = @ + 1]
                ELSE [frame EXCEPT !.response_text = Text(DegradedResponse(error_msg)),
                                   !.pc = "responded"]
  /\ UNCHANGED << pii_masker, applicant_data, result >>

\* send_message after the retry loop: record the response, extract, decide,
\* and return the response or raise
SendMessageEnd ==
  /\ frame.pc = "responded"
  /\ LET Decided(text, s2, d) ==
           /\ session' = s2
           /\ frame' = [frame EXCEPT
                          !.pc = "idle",
                          !.extracted_from = text,
                          !.evaluations = d.evaluations,
                          !.decided_on = s2.extracted_data,
                          !.returned =
                            IF d.kind = "raised"
                              THEN [kind |-> "raised", text |-> << >>, decision |-> << >>]
                              ELSE [kind |-> "value", text |-> frame.response_text.text,
                                    decision |-> d.decision]]
         Extracted(text, s2) == Decided(text, s2, check_for_decision(s2.extracted_data))
         Responded(text, s1) == Extracted(text, extract_entities(s1, text))
     IN Responded(ExtractedText(frame.user_message, frame.masked_message),
                  [session EXCEPT
                     !.history = Append(@, [role |-> "model",
                                            parts |-> frame.response_text])])
  /\ UNCHANGED << pii_masker, applicant_data, result, harness >>

Next ==
  \/ \E initial_message \in Replies \cup {Greeting} : CreateNewChat(initial_message)
  \/ \E user_message \in Utterances : SendMessageBegin(user_message)
  \/ \E reply \in Replies : AttemptSucceeds(reply)
  \/ \E error_msg \in ErrorMessages : AttemptFails(error_msg)
  \/ SendMessageEnd

Spec == Init /\ [][Next]_vars

\* ------------------------------------------------------------------------
\* The extractor called directly on a session's record
\* ------------------------------------------------------------------------

\* the calls of _extract_entities in one run
MaxExtracts == 3

InitExtract ==
  /\ \E initial_message \in Replies : session = NewSession(initial_message)
  /\ pii_masker = NewMasker
  /\ frame = IdleFrame
  /\ applicant_data = EmptyRecord
  /\ result = NoResult
  /\ harness = NewHarness

\* self._extract_entities(session, user_message, response_text)
Extract(user_message) ==
  /\ harness.calls < MaxExtracts
  /\ session' = extract_entities(session, user_message)
  /\ frame' = [frame EXCEPT !.extracted_from = user_message]
  /\ harness' = [harness EXCEPT !.calls = @ + 1]
  /\ UNCHANGED << pii_masker, applicant_data, result >>

NextExtract == \E user_message \in Utterances \cup ExtractTexts : Extract(user_message)

SpecExtract == InitExtract /\ [][NextExtract]_vars

\* ------------------------------------------------------------------------
\* The masker called directly
\* ------------------------------------------------------------------------

\* the calls of mask_text and mask_sensitive_data in one run
MaxMasks == 3

InitMask ==
  /\ session = IdleSession
  /\ pii_masker = NewMasker
  /\ frame = IdleFrame
  /\ applicant_data = EmptyRecord
  /\ result = NoResult
  /\ harness = NewHarness

\* masked_text, metadata = masker.mask_text(text)
Mask(text) ==
  /\ harness.calls < MaxMasks
  /\ LET Returned(m) ==
           /\ pii_masker' = [pii_counters |-> m.pii_counters,
                             masked_mapping |-> m.masked_mapping]
           /\ frame' = [frame EXCEPT !.pc = "masked",
                                     !.user_message = text,
                                     !.masked_message = m.masked_text,
                                     !.pii_metadata = m.metadata,
                                     !.response_text = NoneText]
     IN Returned(mask_text(pii_masker.masked_mapping, text))
  /\ harness' = [harness EXCEPT !.calls = @ + 1]
  /\ UNCHANGED << session, applicant_data, result >>

\* masker.unmask_text(masked_text) on the text the masker has just returned
Unmask ==
  /\ frame.pc = "masked"
  /\ frame' = [frame EXCEPT
                 !.pc = "unmasked",
                 !.response_text =
                   Text(unmask_text(pii_masker.masked_mapping, frame.masked_message))]
  /\ UNCHANGED << session, pii_masker, applicant_data, result, harness >>

\* masker.clear_mapping()
ClearMapping ==
  /\ frame.pc \in {"masked", "unmasked"}
  /\ pii_masker' = clear_mapping
  /\ frame' = [frame EXCEPT !.pc = "cleared"]
  /\ UNCHANGED << session, applicant_data, result, harness >>

\* masked_text, metadata = mask_sensitive_data(text)
MaskSensitiveData(text) ==
  /\ harness.calls < MaxMasks
  /\ LET Returned(m) ==
           frame' = [frame EXCEPT !.pc = "one_shot",
                                  !.user_message = text,
                                  !.masked_message = m.masked_text,
                                  !.pii_metadata = m.metadata,
                                  !.response_text = NoneText]
     IN Returned(mask_sensitive_data(text))
  /\ harness' = [harness EXCEPT !.calls = @ + 1]
  /\ UNCHANGED << session, pii_masker, applicant_data, result >>

NextMask ==
  \/ \E text \in MaskTexts : Mask(text)
  \/ Unmask
  \/ ClearMapping
  \/ \E text \in MaskTexts : MaskSensitiveData(text)

SpecMask == InitMask /\ [][NextMask]_vars

\* ------------------------------------------------------------------------
\* Properties of the engine (checked under SpecEval)
\* ------------------------------------------------------------------------

Evaluated == result # NoResult

\* all five fields are present and not None
Complete(a) == \A f \in Fields : a[f].kind \notin {"absent", "none"}

Income(a) == a["gross_monthly_income"].num

BelowFloor(a) == Income(a) < 15000 * 1200

Unemployed(a) == a["employment_status"] = Str("unemployed")

PoorCredit(a) == a["credit_score_range"] \in {Str("poor"), Str("very_poor")}

ReasonTexts(r) == [k \in 1..Len(r.reason) |-> r.reason[k].text]

\* the records C1 is about
C1_Case ==
  /\ Evaluated /\ Complete(applicant_data) /\ Income(applicant_data) > 0
  /\ ~BelowFloor(applicant_data) /\ ~Unemployed(applicant_data)
  /\ ~PoorCredit(applicant_data)

\* C1: for a complete record with income > 0, no hard disqualifier and a credit
\* range other than poor/very_poor, the status is approved iff dti <= 36.00,
\* conditional iff 36.00 < dti <= 43.00 and rejected iff dti > 43.00
\* (36.00 approved, 36.01 conditional, 43.00 conditional, 43.01 rejected).
C1_DtiThresholds ==
  C1_Case =>
    /\ ~result.dti_ratio.none
    /\ result.status = "approved" <=> result.dti_ratio.value <= 3600
    /\ result.status = "conditional" <=>
         (3600 < result.dti_ratio.value /\ result.dti_ratio.value <= 4300)
    /\ result.status = "rejected" <=> result.dti_ratio.value > 4300

\* a record at the boundary 36.00 that was approved
C1_Witness ==
  C1_Case /\ result.dti_ratio.value = 3600 /\ result.status = "approved"

Sample(i, d, l, e, c) ==
  [f \in Fields |->
     CASE f = "gross_monthly_income" -> Num(i * 1200)
       [] f = "total_monthly_debt" -> Num(d * 1200)
       [] f = "loan_amount" -> Num(l * 1200)
       [] f = "employment_status" -> Str(e)
       [] f = "credit_score_range" -> Str(c)]

\* C2: the sample applications get the stated results: (6000, 1800, 200000,
\* full_time, good) dti 30.0 and approved; (5000, 2000, 180000, full_time,
\* fair) dti 40.0 and conditional; income 6000, debt 1000, credit poor and the
\* other fields valid: conditional.
C2_Samples ==
  Evaluated =>
    /\ applicant_data = Sample(6000, 1800, 200000, "full_time", "good") =>
         result.dti_ratio = Dti(3000) /\ result.status = "approved"
    /\ applicant_data = Sample(5000, 2000, 180000, "full_time", "fair") =>
         result.dti_ratio = Dti(4000) /\ result.status = "conditional"
    /\ ( /\ Complete(applicant_data)
         /\ applicant_data["gross_monthly_income"] = Num(6000 * 1200)
         /\ applicant_data["total_monthly_debt"] = Num(1000 * 1200)
         /\ applicant_data["credit_score_range"] = Str("poor")
         /\ ~Unemployed(applicant_data) ) =>
         result.status = "conditional"

\* the records C3 is about
C3_Case ==
  /\ Evaluated /\ Complete(applicant_data) /\ Income(applicant_data) > 0
  /\ (BelowFloor(applicant_data) \/ Unemployed(applicant_data))

C4_Case == Evaluated /\ Complete(applicant_data) /\ Income(applicant_data) > 0

\* C4: the credit step turns approved into conditional when the credit range
\* is poor or very_poor and changes no other status; with such a credit range
\* the credit reason and the improve-credit recommendation are appended
\* whether or not the status changed, and with another one nothing is.
C4_CreditStep ==
  C4_Case =>
    LET before == BeforeCredit(applicant_data)
    IN /\ result.status =
            (IF PoorCredit(applicant_data) /\ before.status = "approved"
               THEN "conditional" ELSE before.status)
       /\ PoorCredit(applicant_data) =>
            /\ ReasonTexts(result) =
                 Append([k \in 1..Len(before.reasons) |-> before.reasons[k].text],
                        "Credit score is below preferred range")
            /\ result.recommendations =
                 Append(before.recommendations,
                        "Work on improving credit score for better terms")
       /\ ~PoorCredit(applicant_data) =>
            /\ result.reason = before.reasons
            /\ result.recommendations = before.recommendations

\* a rejected status that the credit step left alone while adding its reason
C4_Witness ==
  /\ C4_Case /\ PoorCredit(applicant_data)
  /\ BeforeCredit(applicant_data).status = "rejected"
  /\ result.status = "rejected"
  /\ result.reason[Len(result.reason)].text = "Credit score is below preferred range"

\* the fields that are absent or None
MissingSet(a) == { f \in Fields : a[f].kind \in {"absent", "none"} }

\* C6: a record with a required field absent or None gets insufficient_data,
\* DTI None, a reason that lists exactly the missing field names and exactly one
\* recommendation, and no reason of a disqualifier, threshold or credit rule.
C6_InsufficientData ==
  (Evaluated /\ ~Complete(applicant_data)) =>
    /\ result.status = "insufficient_data"
    /\ result.dti_ratio.none
    /\ Len(result.reason) = 1
    /\ result.reason[1].text = "Missing required information: "
    /\ { result.reason[1].names[k] : k \in 1..Len(result.reason[1].names) }
         = MissingSet(applicant_data)
    /\ Len(result.reason[1].names) = Cardinality(MissingSet(applicant_data))
    /\ Len(result.recommendations) = 1

\* income None on a record that a disqualifier and the credit rule would touch
C6_Witness ==
  /\ Evaluated
  /\ applicant_data["gross_monthly_income"] = None
  /\ applicant_data["loan_amount"] = None
  /\ Unemployed(applicant_data) /\ PoorCredit(applicant_data)
  /\ result.status = "insufficient_data"
  /\ Len(result.reason[1].names) = 2

\* ------------------------------------------------------------------------
\* Properties of the conversation (checked under Spec)
\* ------------------------------------------------------------------------

\* a call of send_message has returned or raised, and no other has begun
TurnDone == frame.pc = "idle" /\ frame.returned.kind # "none"

\* C5: a complete record whose gross income is <= 0 gives a rejected decision
\* with DTI None and the error message as reason, and send_message returns it
\* to its caller rather than raising.
C5_NonPositiveIncome ==
  (/\ TurnDone
   /\ AllPresent(session.extracted_data)
   /\ session.extracted_data["gross_monthly_income"].num <= 0) =>
    /\ frame.returned.kind = "value"
    /\ Len(frame.returned.decision) = 1
    /\ frame.returned.decision[1].status_line = "Application Rejected"
    /\ frame.returned.decision[1].dti_line.none
    /\ frame.returned.decision[1].reason
         = << Reason("Gross monthly income must be greater than zero") >>

\* C7: on every turn the engine is invoked exactly once if the record is complete
\* after the extraction and not at all otherwise, and the response of the turn
\* carries a decision iff the record is complete, on every turn on which it is.
C7_DecisionEachTurn ==
  TurnDone =>
    IF AllPresent(session.extracted_data)
      THEN /\ frame.evaluations = 1
           /\ frame.returned.kind = "value"
           /\ Len(frame.returned.decision) = 1
      ELSE /\ frame.evaluations = 0
           /\ frame.returned.kind = "value"
           /\ frame.returned.decision = << >>

\* the utterance matches a pattern or a keyword of the field
FieldMatched(m, f) ==
  CASE f = "gross_monthly_income" -> m.income.hit
    [] f = "total_monthly_debt" -> m.debt.hit
    [] f = "loan_amount" -> m.loan.hit
    [] f = "employment_status" -> m.employment # << >>
    [] f = "credit_score_range" -> m.credit # << >>

\* the step stays in the session: create_new_chat starts another one at turn 0
SameSession == session'.turn_count >= session.turn_count

\* C8: within a session a key of the record, once present, is present in every
\* later state, and the value of a field changes during a turn only if the
\* utterance of that turn matches a pattern or keyword of that field.
C8_OverwriteOnlyOnMatch ==
  [][SameSession =>
       \A f \in Fields :
         /\ session.extracted_data[f].kind # "absent"
              => session'.extracted_data[f].kind # "absent"
         /\ session'.extracted_data[f] # session.extracted_data[f]
              => /\ frame.pc = "responded"
                 /\ FieldMatched(Matches(frame.user_message), f)]_vars

\* a second turn that matches only the employment keywords has replaced the
\* employment status and kept the amounts of the first turn
C8_Witness ==
  /\ TurnDone
  /\ session.turn_count = 2
  /\ frame.user_message = <<"i"," ","a","m"," ","r","e","t","i","r","e","d"," ","n","o","w">>
  /\ session.extracted_data["employment_status"] = Str("retired")
  /\ session.extracted_data["gross_monthly_income"] = Num(Money(20000, 0))
  /\ session.extracted_data["credit_score_range"] = Str("good")

\* the texts given to the collaborator during the turn
Sends == IF frame.pc = "calling" THEN frame.attempt ELSE frame.attempt + 1

\* the user entry of the turn in the history
UserEntry ==
  IF frame.pc = "idle"
    THEN session.history[Len(session.history) - 1]
    ELSE session.history[Len(session.history)]

\* C10: on every turn the text given to the collaborator, on every attempt, and
\* the user entry of the history are the masked output of the masker, and the
\* extractor is given the original utterance.
C10_MaskedOnly ==
  (frame.pc # "idle" \/ TurnDone) =>
    LET Uses(masked) ==
          /\ \A k \in 1..Sends :
               session.chat_instance[Len(session.chat_instance) - k + 1] = masked
          /\ UserEntry = [role |-> "user", parts |-> Text(masked)]
          /\ TurnDone => frame.extracted_from = frame.user_message
    IN Uses(mask_text(<< >>, frame.user_message).masked_text)

\* an utterance with an account number, sent twice, returned: the collaborator
\* and the history got the placeholder, the extractor read "600" in the digits
C10_Witness ==
  /\ TurnDone
  /\ frame.user_message = <<"a","c","c","t"," ","6","0","0","1","2","3","4","5","6">>
  /\ frame.attempt = 1
  /\ frame.masked_message # frame.user_message
  /\ session.chat_instance[Len(session.chat_instance)] = <<"a","c","c","t"," ","<","S","S","N",
        "_","1",">">>
  /\ session.chat_instance[Len(session.chat_instance) - 1] = <<"a","c","c","t"," ","<","S","S",
        "N","_","1",">">>
  /\ session.history[Len(session.history) - 1].parts = Text(<<"a","c","c","t"," ","<","S","S","N",
        "_","1",">">>)
  /\ session.extracted_data["credit_score_range"] = Str("poor")

\* ------------------------------------------------------------------------
\* Properties of the extractor (checked under SpecExtract)
\* ------------------------------------------------------------------------

\* C9: the extractor is idempotent on the record: a call with the utterance of
\* the call before it leaves the record as that call left it.
C9_Idempotent ==
  [][(harness.calls > 0 /\ frame'.extracted_from = frame.extracted_from)
       => session'.extracted_data = session.extracted_data]_vars

\* the utterance that fills the five fields, twice in a row on a record that
\* another utterance has populated: the labels are there twice, the record once
C9_Witness ==
  /\ harness.calls = 3
  /\ frame.extracted_from
       = <<"e","a","r","n"," ","2","0",",","0","0","0"," ","m","o","n","t","h","l","y",","," ",
             "o","w","e"," ","7",",","2","0","0",","," ","n","e","e","d"," ","9","0",",","0","0",
             "0",","," ","f","u","l","l"," ","t","i","m","e",","," ","g","o","o","d">>
  /\ session.metrics.entities_extracted
       = << "credit_score", "income", "debt", "loan_amount", "employment", "credit_score",
            "income", "debt", "loan_amount", "employment", "credit_score" >>
  /\ session.extracted_data["gross_monthly_income"] = Num(Money(20000, 0))
  /\ session.extracted_data["credit_score_range"] = Str("good")

\* ------------------------------------------------------------------------
\* Properties of the masker (checked under SpecMask)
\* ------------------------------------------------------------------------

\* C11: unmask_text applied to the masked text that mask_text has just returned,
\* on the same masker, gives back the original text (the texts of MaskTexts
\* hold no placeholder-like substring).
C11_RoundTrip ==
  frame.pc = "unmasked" => frame.response_text = Text(frame.user_message)

\* the second call on one masker: its placeholder <SSN_1> stood for another
\* value after the first call, and the text comes back
C11_Witness ==
  /\ frame.pc = "unmasked"
  /\ harness.calls = 2
  /\ frame.user_message = <<"a","c","c","t"," ","6","0","0","1","2","3","4","5","6">>
  /\ frame.masked_message = <<"a","c","c","t"," ","<","S","S","N","_","1",">">>
  /\ Len(pii_masker.masked_mapping) = 3
  /\ frame.response_text = Text(<<"a","c","c","t"," ","6","0","0","1","2","3","4","5","6">>)

\* the positions of lit in s
Occurrences(s, lit) == { i \in 1..Len(s) : OccursAt(s, i, lit) }

\* the numbers n for which the placeholder of the type occurs in the text
Numbers(name, s) ==
  { n \in 1..Len(s) : Occurrences(s, Placeholder(name, n)) # {} }

\* C12: in the text one call returns, the placeholders of a type are numbered
\* from 1 without a gap, each occurs once, and a smaller number stands to the
\* right of a larger one (the rightmost match is number 1); this holds for a
\* later call on the same masker and for the one-shot entry point alike.
C12_RightToLeft ==
  frame.pc \in {"masked", "one_shot"} =>
    \A name \in PiiTypes :
      LET Ordered(ns) ==
            /\ ns = 1..Cardinality(ns)
            /\ frame.pc = "masked" => pii_masker.pii_counters[name] = Cardinality(ns)
            /\ \A n \in ns :
                 Cardinality(Occurrences(frame.masked_message, Placeholder(name, n))) = 1
            /\ \A a, b \in ns :
                 a < b =>
                   \A i \in Occurrences(frame.masked_message, Placeholder(name, a)),
                      j \in Occurrences(frame.masked_message, Placeholder(name, b)) :
                     j < i
      IN Ordered(Numbers(name, frame.masked_message))

\* three numbers of nine digits, masked by a masker that has masked before
C12_Witness ==
  /\ frame.pc = "masked"
  /\ harness.calls = 2
  /\ frame.user_message = <<"i","d","s"," ","1","1","1","2","2","3","3","3","3"," ","4","4","4",
        "5","5","6","6","6","6"," ","7","7","7","8","8","9","9","9","9">>
  /\ frame.masked_message = <<"i","d","s"," ","<","S","S","N","_","3",">"," ","<","S","S","N","_",
        "2",">"," ","<","S","S","N","_","1",">">>

\* ------------------------------------------------------------------------
\* Properties of a turn's attempts and of the session's logs (checked under Spec)
\* ------------------------------------------------------------------------

\* a step in which the collaborator is called
Called == SameSession /\ Len(session'.chat_instance) = Len(session.chat_instance) + 1

\* a step in which the collaborator is called and raises
Failed == Called /\ harness'.faults = harness.faults + 1

\* C13: the collaborator is only called inside a turn's retry loop, while no
\* attempt of the turn has succeeded, and the call is at most the third of the
\* turn; a failed attempt appends exactly one api_error record and leaves the
\* record, the entity log, the intent flag, the fallback counter, the history
\* and the turn counter as they were.
C13_BoundedAttempts ==
  [][ /\ session'.chat_instance # session.chat_instance /\ SameSession => Called
      /\ Called =>
           /\ frame.pc = "calling"
           /\ frame.response_text = NoneText
           /\ Len(session.chat_instance) - frame.attempt =
                Len(session'.chat_instance) - Sends'
           /\ Sends' <= max_retries
           /\ frame'.pc = "responded" => frame'.response_text # NoneText
      /\ Failed =>
           /\ \E e \in { ApiError(frame.attempt + 1, m) : m \in ErrorMessages } :
                session'.metrics.errors = Append(session.metrics.errors, e)
           /\ session'.extracted_data = session.extracted_data
           /\ session'.metrics.entities_extracted = session.metrics.entities_extracted
           /\ session'.metrics.intent_recognized = session.metrics.intent_recognized
           /\ session'.metrics.fallback_count = session.metrics.fallback_count
           /\ session'.history = session.history
           /\ session'.turn_count = session.turn_count ]_vars

\* a turn whose third call is answered after two failed attempts, on a session
\* that holds a record from an earlier turn
C13_Witness ==
  /\ frame.pc = "responded"
  /\ frame.attempt = max_retries - 1
  /\ frame.response_text \in { Text(r) : r \in Replies }
  /\ Len(session.metrics.errors) = max_retries - 1
  /\ session.turn_count = 2
  /\ session.extracted_data # EmptyRecord

\* the degraded responses of a turn whose attempts all failed
DegradedTexts == { Text(DegradedResponse(m)) : m \in ErrorMessages }

\* C14: a turn whose attempts all failed ends with send_message returning the
\* degraded text (it does not raise), with the api_error record of the last
\* attempt in the session's metrics.
C14_DegradedReturn ==
  TurnDone /\ frame.response_text \in DegradedTexts =>
    /\ frame.returned.kind = "value"
    /\ frame.returned.text = frame.response_text.text
    /\ \E k \in 1..Len(session.metrics.errors) :
         /\ session.metrics.errors[k].type = "api_error"
         /\ session.metrics.errors[k].attempt = max_retries

\* a step that starts a turn
TurnStarts == frame.pc = "idle" /\ frame'.pc = "calling"

\* a step that ends a turn
TurnEnds == frame.pc = "responded" /\ frame'.pc = "idle"

\* the types of which a placeholder stands in the text
TypesIn(s) == { name \in PiiTypes : Numbers(name, s) # {} }

\* the elements of a sequence
Range(seq) == { seq[k] : k \in 1..Len(seq) }

\* C15: the step that starts a turn appends one pii_detected entry, carrying
\* the types masked in the utterance, exactly when the masked text holds a
\* placeholder, and appends nothing otherwise; in both cases the turn counter
\* grows by one, every call of the turn forwards the masked text, and the end of
\* the turn runs the extraction on the utterance.
C15_PiiLogged ==
  [][ /\ TurnStarts =>
           /\ session'.turn_count = session.turn_count + 1
           /\ IF TypesIn(frame'.masked_message) = {}
                THEN /\ session'.metrics.errors = session.metrics.errors
                     /\ frame'.masked_message = frame'.user_message
                ELSE \E e \in Range(session'.metrics.errors) :
                       /\ session'.metrics.errors = Append(session.metrics.errors, e)
                       /\ e.type = "pii_detected"
                       /\ Range(e.details) = TypesIn(frame'.masked_message)
                       /\ Len(e.details) = Cardinality(Range(e.details))
                       /\ frame'.masked_message # frame'.user_message
      /\ Called =>
           session'.chat_instance[Len(session'.chat_instance)] = frame.masked_message
      /\ TurnEnds =>
           /\ frame'.extracted_from = frame.user_message
           /\ \A f \in Fields :
                FieldMatched(Matches(frame.user_message), f) =>
                  session'.extracted_data[f].kind # "absent" ]_vars

\* a turn on an utterance with a nine-digit number has started: the entry is
\* the last of the log and the turn goes on to the collaborator
C15_Witness ==
  /\ frame.pc = "calling"
  /\ frame.masked_message = <<"a","c","c","t"," ","<","S","S","N","_","1",">">>
  /\ session.turn_count = 1
  /\ session.metrics.errors = << PiiError(<< <<"s","s","n">> >>) >>

\* a session as create_new_chat returns it
Fresh(s) ==
  /\ s.extracted_data = EmptyRecord
  /\ s.turn_count = 0
  /\ s.metrics.intent_recognized = FALSE
  /\ s.metrics.entities_extracted = << >>
  /\ s.metrics.errors = << >>
  /\ s.metrics.fallback_count = 0
  /\ Len(s.history) = 1
  /\ s.chat_instance = << SYSTEM_PROMPT >>

\* a step that takes a value of the record, the metrics or the turn counter back
Resets ==
  \/ session'.turn_count < session.turn_count
  \/ \E f \in Fields : /\ session.extracted_data[f].kind # "absent"
                        /\ session'.extracted_data[f].kind = "absent"
  \/ Len(session'.metrics.errors) < Len(session.metrics.errors)
  \/ Len(session'.metrics.entities_extracted) < Len(session.metrics.entities_extracted)
  \/ session.metrics.intent_recognized /\ ~session'.metrics.intent_recognized
  \/ session'.metrics.fallback_count < session.metrics.fallback_count
  \/ Len(session'.history) < Len(session.history)

\* C16: a session whose turn counter is 0 has an empty record, the intent flag
\* false and empty entity and error logs, and a step that takes back any of the
\* record, the metrics or the turn counter leaves all of them as create_new_chat
\* makes them.
C16_AtomicReset ==
  [][ /\ session.turn_count = 0 => Fresh(session)
      /\ session'.turn_count = 0 => Fresh(session')
      /\ Resets => Fresh(session') ]_vars

\* the session after the reset of a session that had failed attempts
C16_Witness ==
  /\ session.turn_count = 0
  /\ Fresh(session)
  /\ harness.faults > 0
  /\ frame = IdleFrame

\* C17: a session on which no turn has been processed finds the state its
\* turns read and write as the chatbot's construction left it; no turn of the
\* session before the reset has changed it.
C17_NoSharedState ==
  session.turn_count = 0 => pii_masker = NewMasker

\* ------------------------------------------------------------------------
\* Properties of calculate_dti (checked under SpecEval)
\* ------------------------------------------------------------------------

Debt(a) == a["total_monthly_debt"].num

\* the amounts of a set of inputs
Amounts(inputs) == { x.num : x \in { y \in inputs : y.kind = "num" } }

\* v hundredths is d / n * 100 rounded to two decimals: no multiple of 0.01 is
\* nearer to the quotient (d and n without their common factor, the quotient
\* taken two decimals at a time)
Nearest(v, d, n) ==
  LET Within(whole, a, b, nn) ==
        LET floor == whole * 10000 + ((a * 100) \div nn) * 100 + (b * 100) \div nn
            rest == (b * 100) % nn
        IN \/ v = floor /\ 2 * rest <= nn
           \/ v = floor + 1 /\ 2 * rest >= nn
      Reduced(dd, nn) == Within(dd \div nn, dd % nn, ((dd % nn) * 100) % nn, nn)
      Over(g) == Reduced(d \div g, n \div g)
  IN Over(GCD(d, n))

\* C18: for a complete record with income > 0 the DTI of the result is
\* debt / income * 100 rounded to two decimals, no larger debt of DebtInputs
\* gives a smaller DTI at the same income and no larger income of IncomeInputs
\* gives a larger DTI at the same debt.
C18_DtiRounded ==
  Evaluated /\ Complete(applicant_data) /\ Income(applicant_data) > 0 =>
    /\ ~result.dti_ratio.none
    /\ result.dti_ratio.value =
         calculate_dti(Income(applicant_data), Debt(applicant_data)).value
    /\ Nearest(result.dti_ratio.value, Debt(applicant_data), Income(applicant_data))
    /\ \A d \in Amounts(DebtInputs) :
         /\ d >= Debt(applicant_data) =>
              calculate_dti(Income(applicant_data), d).value >= result.dti_ratio.value
    /\ \A n \in Amounts(IncomeInputs) :
         /\ n >= Income(applicant_data) =>
              calculate_dti(n, Debt(applicant_data)).value <= result.dti_ratio.value

\* 1000 / 6000 * 100 = 16.666... is returned as 16.67
C18_Witness ==
  /\ Evaluated /\ Complete(applicant_data)
  /\ Income(applicant_data) = Money(6000, 0)
  /\ Debt(applicant_data) = Money(1000, 0)
  /\ result.dti_ratio = Dti(1667)

\* ------------------------------------------------------------------------
\* Properties of the turn counter and of the error log (checked under Spec)
\* ------------------------------------------------------------------------

\* the user entries of the history: one for each send_message call
UserEntries(s) == { k \in 1..Len(s.history) : s.history[k].role = "user" }

\* C19: the turn counter grows by one on the step that starts a turn and on no
\* other step of the session, whatever the attempts do; it equals the number
\* of user entries of the history, and between turns the history holds the
\* initial entry and two entries for each counted turn.
C19_TurnCount ==
  [][ /\ TurnStarts => session'.turn_count = session.turn_count + 1
      /\ SameSession /\ ~TurnStarts => session'.turn_count = session.turn_count
      /\ session'.turn_count = Cardinality(UserEntries(session'))
      /\ frame'.pc = "idle" => Len(session'.history) = 1 + 2 * session'.turn_count ]_vars

\* two turns have returned, the second after three failed attempts
C19_Witness ==
  /\ TurnDone
  /\ frame.returned.kind = "value"
  /\ frame.attempt = max_retries - 1
  /\ frame.response_text \in DegradedTexts
  /\ session.turn_count = 2
  /\ Cardinality(UserEntries(session)) = 2

\* errors is a prefix of later
IsPrefix(errors, later) ==
  /\ Len(errors) <= Len(later)
  /\ \A k \in 1..Len(errors) : later[k] = errors[k]

\* C20: on every step of a session the error records of the state before are
\* a prefix of those of the state after, the reported error_count is the number
\* of records and does not decrease, and a step that appends a record leaves
\* the session in its turn, which goes on.
C20_ErrorsAppendOnly ==
  [][ /\ get_conversation_metrics(session').error_count = Len(session'.metrics.errors)
      /\ get_conversation_metrics(session').errors = session'.metrics.errors
      /\ SameSession =>
           /\ IsPrefix(session.metrics.errors, session'.metrics.errors)
           /\ get_conversation_metrics(session').error_count >=
                get_conversation_metrics(session).error_count
      /\ session'.metrics.errors # session.metrics.errors /\ SameSession =>
           /\ Len(session'.metrics.errors) = Len(session.metrics.errors) + 1
           /\ frame'.pc \in {"calling", "responded"}
           /\ session'.history # << >> ]_vars

\* a second turn is under way on a session that holds a pii_detected record
\* and the three api_error records of its first turn
C20_Witness ==
  /\ frame.pc = "calling"
  /\ session.turn_count = 2
  /\ get_conversation_metrics(session).error_count = 1 + max_retries
  /\ session.metrics.errors[1].type = "pii_detected"
  /\ session.metrics.errors[1 + max_retries].type = "api_error"

\* ------------------------------------------------------------------------
\* Properties of the intent flag and of the metrics snapshot (checked under Spec)
\* ------------------------------------------------------------------------

\* the lower-cased utterance holds one of the intent keywords
HasIntent(user_message) ==
  \E k \in 1..Len(intent_keywords) : Contains(Lower(user_message), intent_keywords[k])

\* C21: on every step of a session the intent flag stays true once it is true;
\* the end of a turn whose utterance holds an intent keyword leaves it true, and
\* it only becomes true at the end of such a turn.
C21_IntentMonotonic ==
  [][ SameSession =>
        /\ session.metrics.intent_recognized => session'.metrics.intent_recognized
        /\ TurnEnds /\ HasIntent(frame.user_message) =>
             session'.metrics.intent_recognized
        /\ ~session.metrics.intent_recognized /\ session'.metrics.intent_recognized =>
             TurnEnds /\ HasIntent(frame.user_message) ]_vars

\* the flag was set by the first turn and the second turn, on an utterance
\* without an intent keyword, has returned with the flag still true
C21_Witness ==
  /\ TurnDone
  /\ session.turn_count = 2
  /\ frame.user_message = <<"h","i">>
  /\ ~HasIntent(frame.user_message)
  /\ session.metrics.intent_recognized

\* the fields of the record that are present
Present(extracted) == { f \in Fields : extracted[f].kind # "absent" }

\* C22: in every state the snapshot reports the session's turn counter, the
\* set of the labels of the entity log, the length of the log, the number of
\* error records and the share of the five fields that are present, in percent:
\* between 0 and 100, and 100 exactly when all five are present.
C22_MetricsSnapshot ==
  LET Reports(snap) ==
        /\ snap.turn_count = session.turn_count
        /\ snap.entities_extracted = Range(session.metrics.entities_extracted)
        /\ snap.entity_extraction_count = Len(session.metrics.entities_extracted)
        /\ snap.error_count = Len(session.metrics.errors)
        /\ snap.data_completeness * 5 = Cardinality(Present(session.extracted_data)) * 100
        /\ snap.data_completeness \in 0..100
        /\ snap.data_completeness = 100 <=> AllPresent(session.extracted_data)
  IN Reports(get_conversation_metrics(session))

\* a complete record, a log with a label twice and error records
C22_Witness ==
  /\ AllPresent(session.extracted_data)
  /\ get_conversation_metrics(session).data_completeness = 100
  /\ get_conversation_metrics(session).entity_extraction_count >
       Cardinality(get_conversation_metrics(session).entities_extracted)
  /\ get_conversation_metrics(session).error_count = 2

\* ------------------------------------------------------------------------
\* Properties of the extractor's tables and patterns (checked under SpecExtract)
\* ------------------------------------------------------------------------

\* the categories of a keyword table that have a keyword in the text
Matching(table, low) ==
  { n \in 1..Len(table) : \E k \in 1..Len(table[n].keywords) :
                             Contains(low, table[n].keywords[k]) }

\* the value stored for field is that of the first matching category, if any
FirstWins(table, field, low) ==
  Matching(table, low) # {} =>
    session.extracted_data[field] =
      Str(table[CHOOSE n \in Matching(table, low) :
                  \A o \in Matching(table, low) : n <= o].value)

\* C23: after an extraction from an utterance that holds keywords of one or
\* more employment categories the employment_status stored is the first of them
\* in table order, and likewise the credit_score_range for the credit categories.
C23_FirstCategoryWins ==
  harness.calls > 0 =>
    /\ FirstWins(employment_keywords, "employment_status", Lower(frame.extracted_from))
    /\ FirstWins(credit_keywords, "credit_score_range", Lower(frame.extracted_from))

\* the text names a year or an annual amount
Yearly(low) ==
  Contains(low, <<"y","e","a","r">>) \/ Contains(low, <<"a","n","n","u","a","l">>)

\* C24: after an extraction from an utterance whose first matching income
\* pattern captures an amount (and that names no year), the income stored is
\* the parsed amount times 1000 when a k follows the amount literal and the
\* parsed amount itself when none does.
C24_KSuffix ==
  harness.calls > 0 =>
    LET Stored(low, m) ==
          m.found /\ ~Yearly(low) =>
            session.extracted_data["gross_monthly_income"] =
              Num(IF m.gend <= Len(low) /\ low[m.gend] = "k"
                    THEN GroupAmount(low, m) * 1000
                    ELSE GroupAmount(low, m))
    IN Stored(Lower(frame.extracted_from),
              FirstPatternMatch(income_patterns, 1, Lower(frame.extracted_from)))

\* ------------------------------------------------------------------------
\* Properties of the record of a session (checked under Spec)
\* ------------------------------------------------------------------------

\* C25: in every state of a session gross_monthly_income, when present, is
\* greater than 0, total_monthly_debt, when present, is not negative and
\* loan_amount, when present, is greater than 0.
C25_FieldDomains ==
  /\ session.extracted_data["gross_monthly_income"].kind = "num" =>
       session.extracted_data["gross_monthly_income"].num > 0
  /\ session.extracted_data["total_monthly_debt"].kind = "num" =>
       session.extracted_data["total_monthly_debt"].num >= 0
  /\ session.extracted_data["loan_amount"].kind = "num" =>
       session.extracted_data["loan_amount"].num > 0

\* ------------------------------------------------------------------------
\* Properties of the masker's detection and mapping (checked under SpecMask)
\* ------------------------------------------------------------------------

\* the types whose pattern matches the text as it was given
DetectableIn(text) ==
  { pii_patterns[n].name :
      n \in { o \in 1..Len(pii_patterns) :
                Search(Plain(pii_patterns[o].re), text, TRUE).found } }

\* C26: the detected types of the metadata one call returns are the types
\* whose pattern matches the original text of the call.
C26_DetectedIndependently ==
  frame.pc \in {"masked", "one_shot"} =>
    Range(frame.pii_metadata.pii_detected) = DetectableIn(frame.user_message)

\* C27: on every step of a masker other than clear_mapping each placeholder of
\* the mapping keeps its original and no counter goes back.
C27_MappingPersists ==
  [][ frame'.pc # "cleared" =>
        /\ \A k \in 1..Len(pii_masker.masked_mapping) :
             \E j \in 1..Len(pii_masker'.masked_mapping) :
               pii_masker'.masked_mapping[j] = pii_masker.masked_mapping[k]
        /\ \A name \in PiiTypes :
             pii_masker'.pii_counters[name] >= pii_masker.pii_counters[name] ]_vars

\* ------------------------------------------------------------------------
\* Properties of the decision label (checked under SpecEval)
\* ------------------------------------------------------------------------

\* C28: for a complete record with income > 0 the decision label of the result
\* is 'Application Approved' exactly for the status approved, 'Application
\* Conditionally Approved' exactly for conditional and 'Application Rejected'
\* exactly for rejected, and it is not empty.
C28_DecisionLabel ==
  Evaluated /\ Complete(applicant_data) /\ Income(applicant_data) > 0 =>
    /\ result.decision = "Application Approved" <=> result.status = "approved"
    /\ result.decision = "Application Conditionally Approved" <=>
         result.status = "conditional"
    /\ result.decision = "Application Rejected" <=> result.status = "rejected"
    /\ result.decision # ""

\* ------------------------------------------------------------------------
\* Properties of the end of a turn and of the history (checked under Spec)
\* ------------------------------------------------------------------------

\* C29: a turn whose attempts all failed ends with the fields its utterance
\* matches present in the record, and, when the record is then complete, with
\* the degraded text returned together with the decision text.
C29_ExtractionAfterFailure ==
  TurnDone /\ frame.response_text \in DegradedTexts =>
    /\ frame.extracted_from = frame.user_message
    /\ \A f \in Fields :
         FieldMatched(Matches(frame.user_message), f) =>
           session.extracted_data[f].kind # "absent"
    /\ AllPresent(session.extracted_data) =>
         /\ frame.evaluations = 1
         /\ frame.returned.kind = "value"
         /\ frame.returned.text = frame.response_text.text
         /\ frame.returned.decision # << >>

\* what the masker makes of the utterances
MaskedUtterances == { Masking(u).masked_text : u \in Utterances }

\* C30: between turns the history holds 1 + 2 * turn_count entries: the
\* initial model entry and, for each turn, a user entry with a masked utterance
\* followed by a model entry whose text is not None; the last two are the
\* masked utterance and the response of the turn that has just ended.
C30_HistoryShape ==
  frame.pc = "idle" =>
    /\ Len(session.history) = 1 + 2 * session.turn_count
    /\ session.history[1].role = "model"
    /\ \A k \in 1..session.turn_count :
         /\ session.history[2 * k].role = "user"
         /\ session.history[2 * k].parts \in { Text(m) : m \in MaskedUtterances }
         /\ session.history[2 * k + 1].role = "model"
         /\ ~session.history[2 * k + 1].parts.none
    /\ session.turn_count > 0 =>
         /\ session.history[2 * session.turn_count].parts = Text(frame.masked_message)
         /\ session.history[2 * session.turn_count + 1].parts = frame.response_text

\* two turns have ended, the first on an utterance the masker changed and
\* answered, the second with all its attempts failed
C30_Witness ==
  /\ TurnDone
  /\ session.turn_count = 2
  /\ Len(session.history) = 5
  /\ session.history[2].parts = Text(<<"a","c","c","t"," ","<","S","S","N","_","1",">">>)
  /\ session.history[3].parts \in { Text(r) : r \in Replies }
  /\ session.history[5].parts \in DegradedTexts

\* C29 for the turns whose record has income > 0
C29_Otherwise ==
  session.extracted_data["gross_monthly_income"].num > 0 => C29_ExtractionAfterFailure

\* C14 for the turns whose record has income > 0
C14_Otherwise ==
  session.extracted_data["gross_monthly_income"].num > 0 => C14_DegradedReturn


====
